---- MODULE Spec2Model ----
(***************************************************************************)
(* A model of elote's transform/load pipeline (src/elote/__init__.py) and  *)
(* of its boolean coercer (src/elote/coerce.py).                           *)
(*                                                                         *)
(* Several specifications share the variables below:                      *)
(*   SpecFilter  one call of _filter_datasets_on_loaded on a manifest and  *)
(*               a destination drawn from bounded sets;                    *)
(*   Spec        one run of load_dataset(transform_dataset(...));          *)
(*   SpecRerun   runs of the same pipeline one after another;              *)
(*   SpecEntry   one iteration of the generator over a wide set of inputs; *)
(*   SpecBool    one call of coerce_bool_series on a bounded series;       *)
(*   SpecInit    the init command of src/elote/cli.py.                     *)
(***************************************************************************)
EXTENDS Integers, Sequences, FiniteSets, TLC

VARIABLES
    backend,    \* db.dialect.name of the engine get_db_engine() returns
    schema,     \* the schema argument the caller passed
    runArgs,    \* has_source_type, and whether a custom_transform was passed
    datasets,   \* the manifest data frame (conf/datasets.csv), in file order
    dest,       \* the destination table as the database holds it
    pc,         \* where the run is
    qres,       \* the coverage query as issued and what it came back with
    toLoad,     \* to_load: index labels of the manifest rows the filter kept
    err,        \* the exception that ended the run ("none" while it runs)
    idx,        \* number of rows of to_load the for loop has taken
    entry,      \* the inputs of the entry being transformed
    std,        \* the frame after renames, stamping and projection
    frame,      \* the frame handed from the generator to the loader
    opened,     \* index labels of the entries announced ("Opening ...")
    yielded,    \* index labels of the entries whose frame was yielded
    writes,     \* the appends the loader made, in order
    chunk,      \* the chunk number load_dataset announced last
    series,     \* the input of coerce_bool_series
    coerced,    \* what coerce_bool_series returned or raised
    calls,      \* index labels of the entries custom_transform was called for
    fs,         \* the project directory of the init command: conf/, output/ and the three files
    echoed,     \* what the last init command reported for each file
    inits,      \* number of init commands run
    conns,      \* the database connections that are open
    nconn,      \* number of database connections acquired so far
    runNo,      \* which run on the same manifest and destination this is
    previous    \* the appends the run before made

vars == <<backend, schema, runArgs, datasets, dest, pc, qres, toLoad, err, idx, entry,
          std, frame, opened, yielded, writes, chunk, series, coerced, calls, fs, echoed,
                   inits, conns, nconn, runNo, previous>>

(***************************************************************************)
(* Bounds.                                                                 *)
(***************************************************************************)
\* Rows of the manifest in SpecFilter.
MaxRows == 2
\* Calendar dates the manifests and coverages of SpecFilter are drawn from.
NumDates == 3
\* Rows of the manifest in a pipeline run (Spec).
RunRows == 2
\* Length of the series given to coerce_bool_series (SpecBool).
MaxSeries == 3
\* Init commands run one after another in a directory (SpecInit).
MaxInits == 2
\* Runs made one after another on one manifest and destination (SpecRerun).
MaxRuns == 2

(***************************************************************************)
(* Calendar dates.  A date is <<year, month, day>>, as datetime.date holds *)
(* it; Python orders dates lexicographically on these three fields.        *)
(***************************************************************************)
\* The i-th date of the bounded calendar: 2009-06-30, 2009-07-01,
\* 2010-06-30, 2010-07-01, ...   (strictly increasing in i).
DateAt(i) ==
    <<2009 + (i \div 2), IF i % 2 = 0 THEN 6 ELSE 7, IF i % 2 = 0 THEN 30 ELSE 1>>

DatesUpTo(n) == {DateAt(i) : i \in 0..(n - 1)}

\* Position of a date in the bounded calendar (used to state the properties).
Ordinal(d) == CHOOSE i \in 0..(NumDates + 2 * RunRows + 2) : DateAt(i) = d

NoDate == <<0, 0, 0>>

\* datetime.date.__lt__
DateLT(a, b) ==
    \/ a[1] < b[1]
    \/ a[1] = b[1] /\ a[2] < b[2]
    \/ a[1] = b[1] /\ a[2] = b[2] /\ a[3] < b[3]

\* datetime.date.__gt__
DateGT(a, b) == DateLT(b, a)

(***************************************************************************)
(* ISO-8601 text.  A string is a sequence of one-character strings.        *)
(***************************************************************************)
DigitChar == <<"0", "1", "2", "3", "4", "5", "6", "7", "8", "9">>

IsDigit(c) == \E d \in 0..9 : DigitChar[d + 1] = c

CharDigit(c) == CHOOSE d \in 0..9 : DigitChar[d + 1] = c

Fmt2(n) == <<DigitChar[((n \div 10) % 10) + 1], DigitChar[(n % 10) + 1]>>

Fmt4(n) == Fmt2(n \div 100) \o Fmt2(n % 100)

\* date.isoformat(): "YYYY-MM-DD", the text SQLite hands back for a DATE.
IsoDate(d) == Fmt4(d[1]) \o <<"-">> \o Fmt2(d[2]) \o <<"-">> \o Fmt2(d[3])

\* The text SQLAlchemy stores in SQLite for a DateTime: the date, a space and
\* the time of day, here midnight ("YYYY-MM-DD 00:00:00.000000").
MidnightText ==
    <<" ", "0", "0", ":", "0", "0", ":", "0", "0", ".", "0", "0", "0", "0", "0", "0">>

IsoDateTime(d) == IsoDate(d) \o MidnightText

Num2(s, i) == 10 * CharDigit(s[i]) + CharDigit(s[i + 1])

\* Whether datetime.fromisoformat accepts s: a date, or a date with a time.
IsIsoText(s) ==
    /\ Len(s) >= 10
    /\ \A i \in {1, 2, 3, 4, 6, 7, 9, 10} : IsDigit(s[i])
    /\ s[5] = "-" /\ s[8] = "-"
    /\ Len(s) > 10 => SubSeq(s, 11, Len(s)) = MidnightText

\* datetime.fromisoformat(s).date() for a text IsIsoText accepts.
FromIsoFormatDate(s) == <<100 * Num2(s, 1) + Num2(s, 3), Num2(s, 6), Num2(s, 9)>>

(***************************************************************************)
(* Values a coverage query returns for MIN(start_date) and MAX(end_date).  *)
(***************************************************************************)
DateVal(d) == [k |-> "date", d |-> d, s |-> <<>>]
DateTimeVal(d) == [k |-> "datetime", d |-> d, s |-> <<>>]
StrVal(s) == [k |-> "str", d |-> NoDate, s |-> s]
NullVal == [k |-> "null", d |-> NoDate, s |-> <<>>]

\* How the backend hands back a stored date d of a column kept in format f.
Represent(f, d) ==
    CASE f = "date" -> DateVal(d)
      [] f = "datetime" -> DateTimeVal(d)
      [] f = "iso" -> StrVal(IsoDate(d))
      [] f = "isotime" -> StrVal(IsoDateTime(d))

(***************************************************************************)
(* The destination table and the coverage query                            *)
(* SELECT MIN(start_date), MAX(end_date) FROM [schema.]table.              *)
(* dest.exists: the table is there; dest.fmt: how its two date columns     *)
(* come back ("date", "datetime": native objects; "iso", "isotime": text);  *)
(* dest.stamps: the <<start_date, end_date>> pairs its rows carry.         *)
(***************************************************************************)
Backends == {"postgresql", "sqlite"}

\* The schema None of the Python code.
NoSchema == "None"

Schemas == {"public", NoSchema}

\* Formats a backend can hand the two columns back in.  SQLite keeps dates
\* as text; PostgreSQL returns date objects for DATE, datetime objects for
\* TIMESTAMP and text for a TEXT column.
DestFormats(b) ==
    IF b = "sqlite" THEN {"iso", "isotime"} ELSE {"date", "datetime", "iso"}

\* effective_schema of _filter_datasets_on_loaded and load_dataset.
EffectiveSchema(b, sch) == IF b = "postgresql" THEN sch ELSE NoSchema

\* The exception SQLAlchemy raises for a table that does not exist:
\* ProgrammingError on PostgreSQL, OperationalError on SQLite.
TableMissingError(b) ==
    IF b = "postgresql" THEN "ProgrammingError" ELSE "OperationalError"

NoFault == [cause |-> "none", exc |-> "none"]

\* Other ways connect() or execute() can fail, with the SQLAlchemy exception
\* class of each: a lost or refused connection and a disk I/O failure are
\* OperationalError on both backends; malformed SQL is ProgrammingError on
\* PostgreSQL and OperationalError on SQLite; a corrupt database file or a
\* driver failure is DatabaseError or InterfaceError.
QueryFaults(b) ==
    { [cause |-> "network_io", exc |-> "OperationalError"],
      [cause |-> "malformed_sql",
       exc |-> IF b = "postgresql" THEN "ProgrammingError" ELSE "OperationalError"],
      [cause |-> "driver", exc |-> "InterfaceError"] }

MinDate(S) == CHOOSE d \in S : \A e \in S : ~DateLT(e, d)

MaxDate(S) == CHOOSE d \in S : \A e \in S : ~DateLT(d, e)

\* conn.execute(q).fetchone() under db.connect(): what the query raises
\* or returns.  MIN and MAX over no rows are NULL.
ExecuteCoverageQuery(b, d, fault) ==
    IF fault.cause # "none"
    THEN [exc |-> fault.exc, cause |-> fault.cause, min |-> NullVal, max |-> NullVal]
    ELSE IF ~d.exists
    THEN [exc |-> TableMissingError(b), cause |-> "table_missing",
          min |-> NullVal, max |-> NullVal]
    ELSE IF d.stamps = {}
    THEN [exc |-> "none", cause |-> "none", min |-> NullVal, max |-> NullVal]
    ELSE [exc |-> "none", cause |-> "none",
          min |-> Represent(d.fmt, MinDate({st[1] : st \in d.stamps})),
          max |-> Represent(d.fmt, MaxDate({st[2] : st \in d.stamps}))]

(***************************************************************************)
(* _filter_datasets_on_loaded                                              *)
(***************************************************************************)
\* Faulty variant of Normalise: text bounds are left as text.
NormaliseSkipped(v) == v

\* Lines 76-79: a str bound becomes datetime.fromisoformat(v).date().
Normalise(v) ==
    IF v.k = "str"
    THEN IF IsIsoText(v.s) THEN DateVal(FromIsoFormatDate(v.s))
         ELSE [k |-> "ValueError", d |-> NoDate, s |-> v.s]
    ELSE v

\* Whether comparing a column of date objects with bound v raises TypeError:
\* pandas answers False for a None bound without comparing; with no rows
\* nothing is compared; a date compares with a date only.
ComparisonRaises(n, v) == n > 0 /\ v.k \notin {"date", "null"}

\* Faulty variant of StartAfter: the comparison with max_end is not strict.
StartAfterOrOn(row, hi) == hi.k = "date" /\ ~DateLT(row.start_date, hi.d)

\* One element of  datasets["start_date"].dt.date > max_end
StartAfter(row, hi) == hi.k = "date" /\ DateGT(row.start_date, hi.d)

\* One element of  min_start > datasets["end_date"].dt.date
EndBefore(row, lo) == lo.k = "date" /\ DateGT(lo.d, row.end_date)

\* Index labels of a data frame of n rows.
IndexOf(ds) == [i \in 1..Len(ds) |-> i]

\* The exception classes the except clause of lines 72-73 catches.
RecoveredErrors == {"ProgrammingError", "OperationalError"}

\* The value of _filter_datasets_on_loaded for query outcome q: the index
\* labels of the rows returned, or the exception that leaves the function.
FilterDatasetsOnLoaded(ds, q) ==
    IF q.exc \in RecoveredErrors THEN [exc |-> "none", rows |-> IndexOf(ds)]
    ELSE IF q.exc # "none" THEN [exc |-> q.exc, rows |-> <<>>]
    ELSE LET lo == Normalise(q.min)
             hi == Normalise(q.max)
             Keep(i) == StartAfter(ds[i], hi) \/ EndBefore(ds[i], lo)
         IN  IF "ValueError" \in {lo.k, hi.k} THEN [exc |-> "ValueError", rows |-> <<>>]
             ELSE IF ComparisonRaises(Len(ds), hi) \/ ComparisonRaises(Len(ds), lo)
             THEN [exc |-> "TypeError", rows |-> <<>>]
             ELSE [exc |-> "none", rows |-> SelectSeq(IndexOf(ds), Keep)]

(***************************************************************************)
(* Cell values of a series or a frame column.  t is the Python type, s the *)
(* text of a str, n the number of an int or bool and the tenths of a       *)
(* float (1.0 is 10 tenths), d the date of a Timestamp.                    *)
(***************************************************************************)
StrCell(s) == [t |-> "str", s |-> s, n |-> 0, d |-> NoDate]
IntCell(n) == [t |-> "int", s |-> <<>>, n |-> n, d |-> NoDate]
FloatCell(tenths) == [t |-> "float", s |-> <<>>, n |-> tenths, d |-> NoDate]
BoolCell(b) == [t |-> "bool", s |-> <<>>, n |-> IF b THEN 1 ELSE 0, d |-> NoDate]
NoneCell == [t |-> "None", s |-> <<>>, n |-> 0, d |-> NoDate]
NaNCell == [t |-> "nan", s |-> <<>>, n |-> 0, d |-> NoDate]
NACell == [t |-> "NA", s |-> <<>>, n |-> 0, d |-> NoDate]
DateCell(d) == [t |-> "Timestamp", s |-> <<>>, n |-> 0, d |-> d]
GeomCell == [t |-> "geometry", s |-> <<>>, n |-> 0, d |-> NoDate]
HexCell == [t |-> "str", s |-> <<"0", "1">>, n |-> 0, d |-> NoDate]

\* pd.isna(val)
IsNA(c) == c.t \in {"None", "nan", "NA"}

UpperCase == <<"A", "E", "F", "L", "N", "O", "R", "S", "T", "U", "Y">>

LowerCase == <<"a", "e", "f", "l", "n", "o", "r", "s", "t", "u", "y">>

\* str.lower() on one character.
LowerChar(c) ==
    IF \E i \in 1..Len(UpperCase) : UpperCase[i] = c
    THEN LowerCase[CHOOSE i \in 1..Len(UpperCase) : UpperCase[i] = c]
    ELSE c

\* str.lower()
Lower(s) == [i \in 1..Len(s) |-> LowerChar(s[i])]

IsSpace(c) == c \in {" ", "\t", "\n"}

\* str.strip(): leading and trailing whitespace removed.
Strip(s) ==
    LET Inner == {i \in 1..Len(s) : ~IsSpace(s[i])}
    IN  IF Inner = {} THEN <<>>
        ELSE SubSeq(s, CHOOSE i \in Inner : \A j \in Inner : i <= j,
                       CHOOSE i \in Inner : \A j \in Inner : j <= i)

(***************************************************************************)
(* coerce.py                                                               *)
(***************************************************************************)
\* Line 14: key = val.strip().lower() if isinstance(val, str) else val
BoolKey(val) == IF val.t = "str" THEN StrCell(Lower(Strip(val.s))) ELSE val

\* key in frozenset({n, "n", word, word2}): a str matches by its text; an
\* int, a float and a bool match by numeric equality and equal hash
\* (1 == 1.0 == True).
InTokenSet(key, n, words) ==
    \/ key.t = "str" /\ key.s \in words
    \/ key.t \in {"int", "bool"} /\ key.n = n
    \/ key.t = "float" /\ key.n = 10 * n

\* key in _BOOL_TRUE
InBoolTrue(key) == InTokenSet(key, 1, {<<"1">>, <<"y", "e", "s">>, <<"t", "r", "u", "e">>})

\* key in _BOOL_FALSE
InBoolFalse(key) ==
    InTokenSet(key, 0, {<<"0">>, <<"n", "o">>, <<"f", "a", "l", "s", "e">>})

\* Whether _bool_value(val) raises ValueError.
BoolValueRaises(val) ==
    ~IsNA(val) /\ ~InBoolTrue(BoolKey(val)) /\ ~InBoolFalse(BoolKey(val))

\* _bool_value(val) when it returns: pd.NA, True or False.
BoolValue(val) ==
    IF IsNA(val) THEN NACell
    ELSE IF InBoolTrue(BoolKey(val)) THEN BoolCell(TRUE)
    ELSE BoolCell(FALSE)

\* Faulty variant of FirstRaising: the last unrecognised value is reported.
LastRaising(ser) ==
    CHOOSE i \in 1..Len(ser) :
        BoolValueRaises(ser[i]) /\ \A j \in (i + 1)..Len(ser) : ~BoolValueRaises(ser[j])

\* Series.map calls _bool_value on the elements in order: the position of the
\* element whose call raises.
FirstRaising(ser) ==
    CHOOSE i \in 1..Len(ser) :
        BoolValueRaises(ser[i]) /\ \A j \in 1..(i - 1) : ~BoolValueRaises(ser[j])

\* coerce_bool_series(series): the nullable-boolean series, or the
\* ValueError of the first element _bool_value rejects, whose message holds
\* repr(val) of that element as given.
CoerceBoolSeries(ser) ==
    IF \E i \in 1..Len(ser) : BoolValueRaises(ser[i])
    THEN [exc |-> "ValueError", val |-> ser[FirstRaising(ser)], out |-> <<>>]
    ELSE [exc |-> "none", val |-> NoneCell,
          out |-> [i \in 1..Len(ser) |-> BoolValue(ser[i])]]

(***************************************************************************)
(* Data frames.  cols are the column names in order, data the columns in   *)
(* the same order (each a sequence of cells, one per row), geo whether the *)
(* frame is a GeoDataFrame.                                                *)
(***************************************************************************)
NoFrame == [geo |-> FALSE, cols |-> <<>>, data |-> <<>>, n |-> 0]

Range(q) == {q[i] : i \in 1..Len(q)}

HasCol(f, name) == name \in Range(f.cols)

ColPos(f, name) == CHOOSE i \in 1..Len(f.cols) : f.cols[i] = name

Column(f, name) == f.data[ColPos(f, name)]

\* DataFrame.rename(columns=renames); renames is the dict as the sequence of
\* its <<old name, new name>> items.
Rename(f, renames) ==
    [f EXCEPT !.cols = [i \in 1..Len(f.cols) |->
        IF \E k \in 1..Len(renames) : renames[k][1] = f.cols[i]
        THEN renames[CHOOSE k \in 1..Len(renames) : renames[k][1] = f.cols[i]][2]
        ELSE f.cols[i]]]

\* Faulty variant of Assign: a column the frame already has keeps its values.
AssignIfAbsent(f, name, cell) ==
    IF HasCol(f, name) THEN f
    ELSE [f EXCEPT !.cols = Append(f.cols, name),
                   !.data = Append(f.data, [r \in 1..f.n |-> cell])]

\* DataFrame.assign(name=scalar): every row of the column gets the scalar;
\* a new column goes last.
Assign(f, name, cell) ==
    IF HasCol(f, name)
    THEN [f EXCEPT !.data[ColPos(f, name)] = [r \in 1..f.n |-> cell]]
    ELSE [f EXCEPT !.cols = Append(f.cols, name),
                   !.data = Append(f.data, [r \in 1..f.n |-> cell])]

\* frame[want]: KeyError for a name the frame has not; a GeoDataFrame stays
\* one only when its geometry column is selected.
Project(f, want) ==
    IF \E i \in 1..Len(want) : ~HasCol(f, want[i])
    THEN [exc |-> "KeyError", frame |-> NoFrame]
    ELSE [exc |-> "none",
          frame |-> [geo |-> f.geo /\ "geometry" \in Range(want),
                     cols |-> want,
                     data |-> [i \in 1..Len(want) |-> Column(f, want[i])],
                     n |-> f.n]]

\* Line 144: date_cols = [c for c in ("start_date", "end_date") if c not in out_cols]
DateCols(out_cols) ==
    LET Absent(c) == c \notin Range(out_cols)
    IN  SelectSeq(<<"start_date", "end_date">>, Absent)

\* Lines 143-149: renames, date stamping and projection of one entry.
StandardFrame(src, ref, row) ==
    Project(Assign(Assign(Rename(src, ref.renames),
                          "start_date", DateCell(row.start_date)),
                   "end_date", DateCell(row.end_date)),
            ref.out_cols \o DateCols(ref.out_cols))

(***************************************************************************)
(* Lines 151-161: out_types.  out_types is the descriptor's dict as the    *)
(* sequence of its <<column, type>> items.                                 *)
(***************************************************************************)
RECURSIVE DigitsValue(_)
DigitsValue(s) ==
    IF s = <<>> THEN 0
    ELSE 10 * DigitsValue(SubSeq(s, 1, Len(s) - 1)) + CharDigit(s[Len(s)])

IsDigits(s) == s # <<>> /\ \A i \in 1..Len(s) : IsDigit(s[i])

\* Text of a number with one decimal place, such as "4.5".
IsDecimal(s) ==
    /\ Len(s) >= 3
    /\ s[Len(s) - 1] = "."
    /\ IsDigit(s[Len(s)])
    /\ IsDigits(SubSeq(s, 1, Len(s) - 2))

DecimalTenths(s) == 10 * DigitsValue(SubSeq(s, 1, Len(s) - 2)) + CharDigit(s[Len(s)])

\* pd.to_numeric(column, errors='coerce') on one element: text that is no
\* number, and a missing value, become NaN.
ToNumeric(c) ==
    IF c.t = "str"
    THEN IF IsDigits(Strip(c.s)) THEN IntCell(DigitsValue(Strip(c.s)))
         ELSE IF IsDecimal(Strip(c.s)) THEN FloatCell(DecimalTenths(Strip(c.s)))
         ELSE NaNCell
    ELSE IF IsNA(c) THEN NaNCell ELSE c

\* astype("Int64") refuses a float that is no whole number.
Int64Raises(c) == c.t = "float" /\ c.n % 10 # 0

\* Faulty variant of AsInt64: a missing value is filled with 0.
AsInt64Filled(c) ==
    IF IsNA(c) THEN IntCell(0)
    ELSE IF c.t = "float" THEN IntCell(c.n \div 10) ELSE IntCell(c.n)

\* astype("Int64") on one element: NaN becomes pd.NA.
AsInt64(c) ==
    IF IsNA(c) THEN NACell
    ELSE IF c.t = "float" THEN IntCell(c.n \div 10) ELSE IntCell(c.n)

\* astype(float) on one element.
AsFloat(c) == IF IsNA(c) THEN NaNCell ELSE IF c.t = "float" THEN c ELSE FloatCell(10 * c.n)

\* str(n) for a small natural number.
IntText(n) == IF n < 10 THEN <<DigitChar[n + 1]>> ELSE Fmt2(n)

\* astype(str) on one element.
AsStr(c) ==
    CASE c.t = "str" -> c
      [] c.t = "int" -> StrCell(IntText(c.n))
      [] c.t = "Timestamp" -> StrCell(IsoDate(c.d))
      [] OTHER -> StrCell(<<c.t>>)

\* _TYPE_MAP and the casts of lines 155-159 on one element.
CastCell(c, ty) ==
    CASE ty = "int" -> AsInt64(ToNumeric(c))
      [] ty = "float" -> AsFloat(ToNumeric(c))
      [] ty = "str" -> AsStr(c)
      [] OTHER -> c

IsBoolItem(item) == item[2] = "bool"

IsOtherItem(item) == item[2] # "bool"

TypeFor(items, col) == items[CHOOSE k \in 1..Len(items) : items[k][1] = col][2]

\* Lines 155-159: to_numeric on the numeric columns, then frame.astype.
CastOthers(f, items) ==
    IF items = <<>> THEN [exc |-> "none", val |-> NoneCell, frame |-> f]
    ELSE IF \E k \in 1..Len(items) : ~HasCol(f, items[k][1])
    THEN [exc |-> "KeyError", val |-> NoneCell, frame |-> NoFrame]
    ELSE IF \E k \in 1..Len(items) : \E r \in 1..f.n :
                items[k][2] = "int" /\ Int64Raises(ToNumeric(Column(f, items[k][1])[r]))
    THEN [exc |-> "TypeError", val |-> NoneCell, frame |-> NoFrame]
    ELSE [exc |-> "none", val |-> NoneCell,
          frame |-> [f EXCEPT !.data = [i \in 1..Len(f.cols) |->
              IF \E k \in 1..Len(items) : items[k][1] = f.cols[i]
              THEN [r \in 1..f.n |-> CastCell(f.data[i][r], TypeFor(items, f.cols[i]))]
              ELSE f.data[i]]]]

\* Lines 160-161: each "bool" column through coerce_bool_series, in order.
RECURSIVE CoerceBoolCols(_, _)
CoerceBoolCols(f, items) ==
    IF items = <<>> THEN [exc |-> "none", val |-> NoneCell, frame |-> f]
    ELSE IF ~HasCol(f, items[1][1])
    THEN [exc |-> "KeyError", val |-> NoneCell, frame |-> NoFrame]
    ELSE LET res == CoerceBoolSeries(Column(f, items[1][1]))
         IN  IF res.exc # "none"
             THEN [exc |-> res.exc, val |-> res.val, frame |-> NoFrame]
             ELSE CoerceBoolCols([f EXCEPT !.data[ColPos(f, items[1][1])] = res.out],
                                 Tail(items))

\* Lines 151-161.
ApplyOutTypes(f, out_types) ==
    LET cast == CastOthers(f, SelectSeq(out_types, IsOtherItem))
    IN  IF cast.exc # "none" THEN cast
        ELSE CoerceBoolCols(cast.frame, SelectSeq(out_types, IsBoolItem))

(***************************************************************************)
(* Lines 114-166: one iteration of the generator's loop.                   *)
(* run: what transform_dataset fixes before the loop (whether the manifest *)
(* has a source_type column, whether a custom_transform was passed).       *)
(* inp: what the iteration reads: the row's source_type ("blank" is NaN,   *)
(* "DB" a value other than "db" and "file")                                *)
(* and source_file (its text split at the dots), what loading the field    *)
(* reference gives, what reading the source gives, what the custom         *)
(* transform does.                                                         *)
(***************************************************************************)
\* Line 119.
SourceType(run, inp) ==
    IF run.has_source_type /\ inp.source_type # "blank" THEN inp.source_type ELSE "file"

\* Path(source_file).suffix: the last dot and what follows it, or nothing.
Suffix(source_file) ==
    IF Len(source_file) >= 2 THEN <<".", source_file[Len(source_file)]>> ELSE <<>>

GeoSuffixes == {<<".", "geojson">>, <<".", "shp">>, <<".", "gpkg">>}

\* Faulty variant of SupportedSuffixes: spreadsheets are let through to read_csv.
SupportedSuffixesWide == GeoSuffixes \cup {<<".", "csv">>, <<".", "xlsx">>}

\* The extensions lines 132-139 read.
SupportedSuffixes == GeoSuffixes \cup {<<".", "csv">>}

\* Lines 121-141: which reader acquires the source.
Reader(run, inp) ==
    IF SourceType(run, inp) = "db" THEN "read_sql_table"
    ELSE IF Suffix(inp.source_file) \notin SupportedSuffixes THEN "unsupported"
    ELSE IF Suffix(inp.source_file) \in GeoSuffixes THEN "gpd.read_file"
    ELSE "pd.read_csv"

\* Lines 122-127: table_spec.split(".", 1), the schema passed on as
\* `src_schema or None` (an empty part before the dot is passed as None).
SrcSchema(source_file) ==
    IF Len(source_file) >= 2 /\ source_file[1] # "" THEN source_file[1] ELSE NoSchema

\* Faulty variant of SrcTable: the text is split at its last dot.
SrcTableAfterLastDot(source_file) == <<source_file[Len(source_file)]>>

\* The table name: what follows the first dot (its parts, further dots
\* included), or the whole text when it has no dot.
SrcTable(source_file) == IF Len(source_file) >= 2 THEN Tail(source_file) ELSE source_file

NoAcquisition ==
    [reader |-> "none", suffix_checked |-> FALSE, src_schema |-> NoSchema,
     src_table |-> <<>>, path |-> <<>>]

\* Lines 121-141: the call that acquires the source, with its arguments,
\* and whether the extension of source_file was looked at.
Acquisition(run, inp) ==
    IF SourceType(run, inp) = "db"
    THEN [NoAcquisition EXCEPT !.reader = "read_sql_table",
                               !.src_schema = SrcSchema(inp.source_file),
                               !.src_table = SrcTable(inp.source_file)]
    ELSE IF Reader(run, inp) = "unsupported"
    THEN [NoAcquisition EXCEPT !.suffix_checked = TRUE]
    ELSE [NoAcquisition EXCEPT !.reader = Reader(run, inp), !.suffix_checked = TRUE,
                               !.path = inp.source_file]

\* A custom_transform that returns the frame as it is, drops its first row,
\* or raises.
ApplyCustom(f, outcome) ==
    IF outcome = "drop_row" /\ f.n > 0
    THEN [f EXCEPT !.n = f.n - 1, !.data = [i \in 1..Len(f.cols) |-> Tail(f.data[i])]]
    ELSE f

\* No field reference.
NoRef == [renames |-> <<>>, out_cols |-> <<>>, out_types |-> <<>>]

\* No call of custom_transform.
NoCall == [made |-> FALSE, frame |-> NoFrame, ref |-> NoRef, ret |-> NoFrame]

\* Line 164: custom_transform(frame, field_reference) and what it returned.
CustomCall(f, ref, outcome) ==
    [made |-> TRUE, frame |-> f, ref |-> ref, ret |-> ApplyCustom(f, outcome)]

\* Faulty variant of Final: the value custom_transform returned is dropped.
FinalStandard(supplied, f, call) == f

\* Lines 163-166: the frame yielded is what custom_transform returned, or
\* the typed frame when no custom_transform was passed.
Final(supplied, f, call) == IF supplied THEN call.ret ELSE f

Raised(exc, at, val, suffix, stdf) ==
    [exc |-> exc, at |-> at, val |-> val, suffix |-> suffix, std |-> stdf, frame |-> NoFrame,
     acq |-> NoAcquisition, call |-> NoCall]

\* One iteration for manifest row `row`: the frame it yields, or the
\* exception it raises and where.
TransformEntry(row, run, inp) ==
    IF inp.fr.exc # "none"
    THEN Raised(inp.fr.exc, "field_reference", NoneCell, <<>>, NoFrame)
    ELSE LET acq == Acquisition(run, inp)
             proj == StandardFrame(inp.read.frame, inp.fr.ref, row)
             typed == ApplyOutTypes(proj.frame, inp.fr.ref.out_types)
             call == CustomCall(typed.frame, inp.fr.ref, inp.custom)
             res == IF Reader(run, inp) = "unsupported"
                    THEN Raised("ValueError", "unsupported_file_type", NoneCell,
                                Suffix(inp.source_file), NoFrame)
                    ELSE IF inp.read.exc # "none"
                    THEN Raised(inp.read.exc, "read", NoneCell, <<>>, NoFrame)
                    ELSE IF proj.exc # "none"
                    THEN Raised(proj.exc, "project", NoneCell, <<>>, NoFrame)
                    ELSE IF typed.exc # "none"
                    THEN Raised(typed.exc, "out_types", typed.val, <<>>, proj.frame)
                    ELSE IF run.custom /\ inp.custom = "raise"
                    THEN [Raised("CustomError", "custom_transform", NoneCell, <<>>,
                                 proj.frame)
                            EXCEPT !.call = call]
                    ELSE [Raised("none", "yield", NoneCell, <<>>, proj.frame)
                            EXCEPT !.frame = Final(run.custom, typed.frame, call),
                                   !.call = IF run.custom THEN call ELSE NoCall]
         IN  [res EXCEPT !.acq = acq]

(***************************************************************************)
(* Lines 185-197: load_dataset's handling of one frame.                    *)
(***************************************************************************)
\* Faulty variant of WritePath: every geometry-bearing frame goes to to_postgis.
WritePathAlwaysSpatial(b, sch, f) ==
    IF f.geo
    THEN [path |-> "to_postgis", handle |-> "engine", schema |-> sch, flattened |-> FALSE]
    ELSE [path |-> "to_sql", handle |-> "connection",
          schema |-> EffectiveSchema(b, sch), flattened |-> FALSE]

\* Faulty variant of WritePath: to_sql is given the caller's schema on every backend.
WritePathCallerSchema(b, sch, f) ==
    IF f.geo /\ b = "postgresql"
    THEN [path |-> "to_postgis", handle |-> "engine", schema |-> sch, flattened |-> FALSE]
    ELSE [path |-> "to_sql", handle |-> "connection", schema |-> sch, flattened |-> f.geo]

\* Which append is made, with which handle and schema, and whether the
\* geometry was flattened to WKB hex first.
WritePath(b, sch, f) ==
    IF f.geo /\ b = "postgresql"
    THEN [path |-> "to_postgis", handle |-> "engine", schema |-> sch, flattened |-> FALSE]
    ELSE [path |-> "to_sql", handle |-> "connection",
          schema |-> EffectiveSchema(b, sch), flattened |-> f.geo]

\* Lines 190-195: pd.DataFrame(frame) with the geometry as wkb_hex text.
Flatten(f) ==
    [f EXCEPT !.geo = FALSE,
              !.data = [i \in 1..Len(f.cols) |->
                  IF f.cols[i] = "geometry"
                  THEN [r \in 1..f.n |-> IF IsNA(f.data[i][r]) THEN NoneCell ELSE HexCell]
                  ELSE f.data[i]]]

\* The frame the append is given.
Written(b, f) == IF f.geo /\ b # "postgresql" THEN Flatten(f) ELSE f

\* The <<start_date, end_date>> pairs of the rows of a frame.
Stamps(f) ==
    IF HasCol(f, "start_date") /\ HasCol(f, "end_date")
    THEN {<<Column(f, "start_date")[r].d, Column(f, "end_date")[r].d>> : r \in 1..f.n}
    ELSE {}

\* The format of the date columns of a table the append creates: pandas
\* writes a datetime64 column as TIMESTAMP (PostgreSQL) or as datetime text
\* (SQLite).
CreatedFormat(b) == IF b = "postgresql" THEN "datetime" ELSE "isotime"

\* The destination after a successful append (if_exists="append").
Appended(b, d, f) ==
    [exists |-> TRUE,
     fmt |-> IF d.exists THEN d.fmt ELSE CreatedFormat(b),
     stamps |-> d.stamps \cup Stamps(f)]

(***************************************************************************)
(* Inputs: source tables, field references, source files.                  *)
(***************************************************************************)
SrcPlain ==
    [geo |-> FALSE, cols |-> <<"DistrictCode", "Value", "Flag">>, n |-> 2,
     data |-> << <<StrCell(<<"0", "0", "1">>), StrCell(<<"0", "0", "2">>)>>,
                 <<StrCell(<<"4", "2">>), StrCell(<<>>)>>,
                 <<StrCell(<<" ", "Y", "e", "s", " ">>), IntCell(0)>> >>]

SrcBadFlag ==
    [SrcPlain EXCEPT !.data[3] = <<StrCell(<<"m", "a", "y", "b", "e">>), IntCell(2)>>]

\* A source whose Value column holds text that is no number.
SrcUnparseable ==
    [SrcPlain EXCEPT !.data[2] = <<StrCell(<<"n", "/", "a">>), StrCell(<<" ", "7">>)>>]

\* A source whose Value column holds a number that is not whole.
SrcDecimal ==
    [SrcPlain EXCEPT !.data[2] = <<StrCell(<<"4", ".", "5">>), NaNCell>>]

\* A source that has start_date and end_date columns of its own.
SrcDated ==
    [geo |-> FALSE, cols |-> <<"start_date", "DistrictCode", "Value", "Flag", "end_date">>,
     n |-> 2,
     data |-> << <<DateCell(<<1999, 1, 1>>), DateCell(<<1999, 1, 2>>)>> >>
              \o SrcPlain.data
              \o << <<DateCell(<<1999, 12, 31>>), NaNCell>> >>]

SrcGeo ==
    [geo |-> TRUE, cols |-> <<"DistrictCode", "Value", "Flag", "geometry">>, n |-> 2,
     data |-> SrcPlain.data \o << <<GeomCell, NoneCell>> >>]

SourceFrames == {SrcPlain, SrcBadFlag, SrcUnparseable, SrcDecimal, SrcDated, SrcGeo}

SampleRenames ==
    << <<"DistrictCode", "district_code">>, <<"Value", "value">>, <<"Flag", "flag">> >>

RefFull ==
    [renames |-> SampleRenames,
     out_cols |-> <<"district_code", "value", "start_date", "end_date">>,
     out_types |-> << <<"district_code", "str">>, <<"value", "int">> >>]

RefNoDates ==
    [renames |-> SampleRenames,
     out_cols |-> <<"district_code", "value", "flag">>,
     out_types |-> << <<"value", "int">>, <<"flag", "bool">> >>]

RefFloat ==
    [renames |-> SampleRenames,
     out_cols |-> <<"value", "flag">>,
     out_types |-> << <<"flag", "bool">>, <<"value", "float">> >>]

RefEndFirst ==
    [renames |-> SampleRenames,
     out_cols |-> <<"end_date", "district_code">>,
     out_types |-> <<>>]

RefGeo ==
    [renames |-> SampleRenames,
     out_cols |-> <<"district_code", "geometry">>,
     out_types |-> << <<"district_code", "str">> >>]

RefMissingCol ==
    [renames |-> SampleRenames,
     out_cols |-> <<"district_code", "population">>,
     out_types |-> <<>>]

FieldRefs == {RefFull, RefNoDates, RefFloat, RefEndFirst, RefGeo, RefMissingCol}

\* _load_field_reference: the descriptor, or the error of a missing or
\* malformed file.
FieldRefOutcomes ==
    {[exc |-> "none", ref |-> r] : r \in FieldRefs}
    \cup {[exc |-> e, ref |-> NoRef] : e \in {"FileNotFoundError", "JSONDecodeError"}}

NotRead == [exc |-> "unread", frame |-> NoFrame]

\* What the reader returns or raises.
ReadOutcomes ==
    {[exc |-> "none", frame |-> f] : f \in SourceFrames}
    \cup {[exc |-> "FileNotFoundError", frame |-> NoFrame], NotRead}

\* source_file values, split at the dots.
SourceFiles ==
    { <<"data/file", "csv">>, <<"data/file", "geojson">>, <<"data/file", "shp">>,
      <<"data/file", "gpkg">>, <<"data/file", "xlsx">>, <<"data/file", "CSV">>,
      <<"data/file">>, <<"public", "raw_mobility">>, <<"raw_mobility">>,
      <<"public", "raw", "v2">>, <<"", "raw_mobility">> }

\* The inputs one iteration can meet.  Inputs the iteration never reads are
\* left at "unread" / "same".
EntryInputs(rn) ==
    {inp \in [source_type : {"blank", "file", "db", "DB"}, source_file : SourceFiles,
              fr : FieldRefOutcomes, read : ReadOutcomes,
              custom : {"same", "drop_row", "raise"}] :
        /\ ~rn.has_source_type => inp.source_type = "blank"
        /\ ~rn.custom => inp.custom = "same"
        /\ (inp.read = NotRead) <=>
              (inp.fr.exc # "none" \/ Reader(rn, inp) = "unsupported")
        /\ inp.read.exc # "none" => inp.custom = "same"
        /\ inp.read.exc = "none" =>
              (inp.read.frame.geo <=> Reader(rn, inp) = "gpd.read_file")}

\* The inputs a pipeline run draws from: a CSV that transforms (whatever
\* the custom transform does), a GeoJSON that transforms, a spreadsheet, a
\* missing field reference, a CSV with an unrecognised boolean, a CSV that
\* cannot be read and, when the manifest has a source_type column, a
\* database table.
RunInputs(rn) ==
    LET Ref(r) == [exc |-> "none", ref |-> r]
        Got(f) == [exc |-> "none", frame |-> f]
        In(st, sf, fr, rd, cu) ==
            [source_type |-> st, source_file |-> sf, fr |-> fr, read |-> rd, custom |-> cu]
        csv == <<"data/file", "csv">>
    IN  {In("blank", csv, Ref(RefNoDates), Got(SrcPlain), cu) :
            cu \in IF rn.custom THEN {"same", "drop_row", "raise"} ELSE {"same"}}
        \cup {In("blank", <<"data/file", "geojson">>, Ref(RefGeo), Got(SrcGeo), "same"),
              In("blank", <<"data/file", "xlsx">>, Ref(RefNoDates), NotRead, "same"),
              In("blank", csv, [exc |-> "FileNotFoundError", ref |-> NoRef], NotRead, "same"),
              In("blank", csv, Ref(RefNoDates), Got(SrcBadFlag), "same"),
              In("blank", csv, Ref(RefNoDates),
                 [exc |-> "FileNotFoundError", frame |-> NoFrame], "same")}
        \cup IF rn.has_source_type
             THEN {In("db", <<"public", "raw_mobility">>, Ref(RefNoDates), Got(SrcPlain),
                      "same")}
             ELSE {}

(***************************************************************************)
(* The init command (src/elote/cli.py).  A file is "absent" or holds a     *)
(* text; the three templates are named by their constants.                 *)
(***************************************************************************)
TemplatePaths == <<"conf/datasets.csv", "conf/field_reference.json", "process.py">>

Template(path) ==
    CASE path = "conf/datasets.csv" -> "DATASETS_CSV_TEMPLATE"
      [] path = "conf/field_reference.json" -> "FIELD_REFERENCE_TEMPLATE"
      [] path = "process.py" -> "PROCESS_PY_TEMPLATE"

\* What a file can hold before the command runs.
FileContents(path) == {"absent", Template(path), "", "edited by the user"}

\* An empty directory.
NoProject ==
    [conf |-> "absent", output |-> "absent",
     file |-> [p \in Range(TemplatePaths) |-> "absent"]]

\* Faulty variant of WriteIfAbsent: the template is written over the file.
WriteAlways(content, template) == template

\* if not path.exists(): path.write_text(TEMPLATE)
WriteIfAbsent(content, template) == IF content = "absent" THEN template ELSE content

\* click.echo(f"Created {path}") or click.echo(f"Skipped {path} (already exists)")
Echo(path, content) == <<IF content = "absent" THEN "Created" ELSE "Skipped", path>>

\* Path.mkdir(exist_ok=True): raises when the path is a regular file.
MkdirRaises(kind) == kind = "file"

Mkdir(kind) == IF kind = "absent" THEN "dir" ELSE kind

\* Lines 64-99: the directory after the command, what it echoed and the
\* exception it raised.
RunInit(d) ==
    IF MkdirRaises(d.conf)
    THEN [exc |-> "FileExistsError", fs |-> d, echoed |-> <<>>]
    ELSE IF MkdirRaises(d.output)
    THEN [exc |-> "FileExistsError", fs |-> [d EXCEPT !.conf = Mkdir(d.conf)],
          echoed |-> <<>>]
    ELSE [exc |-> "none",
          fs |-> [conf |-> Mkdir(d.conf), output |-> Mkdir(d.output),
                  file |-> [p \in Range(TemplatePaths) |->
                               WriteIfAbsent(d.file[p], Template(p))]],
          echoed |-> [i \in 1..Len(TemplatePaths) |->
                         Echo(TemplatePaths[i], d.file[TemplatePaths[i]])]]

(***************************************************************************)
(* States and actions.                                                     *)
(***************************************************************************)
NoErr == [exc |-> "none", at |-> "none", val |-> NoneCell, suffix |-> <<>>]

NoQuery ==
    [schema |-> NoSchema, exc |-> "none", cause |-> "not issued",
     min |-> NullVal, max |-> NullVal]

NoEntry ==
    [label |-> 0, acq |-> NoAcquisition, call |-> NoCall,
     inp |-> [source_type |-> "blank", source_file |-> <<>>,
              fr |-> [exc |-> "none", ref |-> NoRef], read |-> NotRead, custom |-> "same"]]

MissingTable == [exists |-> FALSE, fmt |-> "date", stamps |-> {}]

\* Before load_dataset(transform_dataset(...)) is called.
Idle ==
    /\ pc = "start" /\ qres = NoQuery /\ toLoad = <<>> /\ err = NoErr /\ idx = 0
    /\ entry = NoEntry /\ std = NoFrame /\ frame = NoFrame
    /\ opened = <<>> /\ yielded = <<>> /\ writes = <<>> /\ chunk = 0
    /\ previous = <<>>
    /\ runNo = 1
    /\ nconn = 0
    /\ conns = {}
    /\ inits = 0
    /\ echoed = <<>>
    /\ fs = NoProject
    /\ calls = <<>>
    /\ series = <<>> /\ coerced = [exc |-> "none", val |-> NoneCell, out |-> <<>>]

\* Faulty variant of WithConnection: the connection is closed only when
\* the block did not raise.
WithConnectionLeaking(open, c, raised) == IF raised THEN open \cup {c} ELSE open

\* The connections open after `with engine.connect() as conn: ...` (lines
\* 67-68 and 196-197) and after the calls that are handed the engine and
\* scope a connection of their own (pd.read_sql_table, line 127;
\* to_postgis, line 188): connection c is opened, the block runs, and c is
\* closed on the way out whether the block returned or raised.
WithConnection(open, c, raised) == (open \cup {c}) \ {c}

\* Faulty variant of Raise: the exception is swallowed and the loop goes on.
RaiseSwallowed == "iter"

\* Where the run is after an exception: nothing in transform_dataset or
\* load_dataset catches it, so it leaves both and the run is over.
Raise == "aborted"

\* Faulty variant of NextRow: the rows are taken last to first.
NextRowReversed(tl, i) == tl[Len(tl) - i]

\* Line 114: to_load.iterrows() gives the rows in frame order; the row taken
\* after i rows were taken.
NextRow(tl, i) == tl[i + 1]

\* Faulty variant of FilterDue: the filter is evaluated again between entries.
FilterDueBetweenEntries == pc \in {"start", "iter"}

\* Line 110 stands before the loop of line 114: the filter is called when
\* the generator starts and at no other point.
FilterDue == pc = "start"

\* Lines 103-112 (and 181-183): the generator starts; the filter runs once.
Filter ==
    /\ FilterDue
    /\ \E fault \in {NoFault} \cup QueryFaults(backend) :
         \E q \in {ExecuteCoverageQuery(backend, dest, fault)} :
         \E res \in {FilterDatasetsOnLoaded(datasets, q)} :
             /\ qres' = [schema |-> EffectiveSchema(backend, schema), exc |-> q.exc,
                         cause |-> q.cause, min |-> q.min, max |-> q.max]
             /\ toLoad' = res.rows
             /\ nconn' = nconn + 1
             /\ conns' = WithConnection(conns, [for |-> "filter", n |-> nconn + 1],
                                        q.exc # "none")
             /\ pc' = IF res.exc = "none" THEN "iter" ELSE Raise
             /\ err' = IF res.exc = "none" THEN NoErr
                       ELSE [NoErr EXCEPT !.exc = res.exc, !.at = "filter"]
    /\ UNCHANGED <<backend, schema, runArgs, datasets, dest, idx, entry, std, frame,
                   opened, yielded, writes, chunk, series, coerced, calls, fs, echoed,
                   inits, runNo, previous>>

\* Faulty variant of GeneratorResumed: the generator runs ahead of the loader.
GeneratorRunsAhead == pc \in {"iter", "yielded"}

\* Lines 166 and 185: the generator is suspended at its yield while
\* load_dataset handles the frame, and runs again only when the for loop
\* of load_dataset asks for the next frame.
GeneratorResumed == pc = "iter"

\* Lines 114-166 for the next row of to_load, with inputs drawn from Inputs:
\* the row is announced, then transformed; its frame is yielded or the
\* exception leaves the generator and load_dataset.
Produce(Inputs) ==
    /\ GeneratorResumed
    /\ idx < Len(toLoad)
    /\ \E inp \in Inputs :
         \E res \in {TransformEntry(datasets[NextRow(toLoad, idx)], runArgs, inp)} :
         LET label == NextRow(toLoad, idx)
         IN  /\ idx' = idx + 1
             /\ opened' = Append(opened, label)
             /\ entry' = [label |-> label, inp |-> inp, acq |-> res.acq, call |-> res.call]
             /\ calls' = IF res.call.made THEN Append(calls, label) ELSE calls
             /\ nconn' = IF res.acq.reader = "read_sql_table" THEN nconn + 1 ELSE nconn
             /\ conns' = IF res.acq.reader = "read_sql_table"
                         THEN WithConnection(conns, [for |-> "read", n |-> nconn + 1],
                                             inp.read.exc # "none")
                         ELSE conns
             /\ std' = res.std
             /\ frame' = res.frame
             /\ yielded' = IF res.exc = "none" THEN Append(yielded, label) ELSE yielded
             /\ pc' = IF res.exc = "none" THEN "yielded" ELSE Raise
             /\ err' = IF res.exc = "none" THEN NoErr
                       ELSE [exc |-> res.exc, at |-> res.at, val |-> res.val,
                             suffix |-> res.suffix]
    /\ UNCHANGED <<backend, schema, runArgs, datasets, dest, qres, toLoad, writes, chunk,
                   series, coerced, fs, echoed, inits, runNo, previous>>

ProduceRun == Produce(RunInputs(runArgs))

ProduceAny == Produce(EntryInputs(runArgs))

\* Whether every geometry of a written frame is WKB hex text (or None).
HexEncoded(f) ==
    /\ ~f.geo
    /\ HasCol(f, "geometry")
    /\ \A r \in 1..f.n : Column(f, "geometry")[r] \in {HexCell, NoneCell}

\* Lines 185-197 for the frame just yielded: the chunk is announced, the
\* frame appended; a failed append raises out of load_dataset.
Load ==
    /\ pc = "yielded"
    /\ chunk' = chunk + 1
    /\ nconn' = nconn + 1
    /\ \E ok \in BOOLEAN :
         /\ conns' = WithConnection(conns, [for |-> "write", n |-> nconn + 1], ~ok)
         /\ IF ok
            THEN /\ writes' = Append(writes,
                        [label |-> entry.label, chunk |-> chunk + 1, geo |-> frame.geo,
                         route |-> WritePath(backend, schema, frame),
                         stamps |-> Stamps(Written(backend, frame)),
                         hex |-> HexEncoded(Written(backend, frame))])
                 /\ dest' = Appended(backend, dest, Written(backend, frame))
                 /\ pc' = "iter"
                 /\ entry' = NoEntry /\ std' = NoFrame /\ frame' = NoFrame
                 /\ err' = NoErr
            ELSE /\ pc' = Raise
                 /\ err' = [NoErr EXCEPT !.exc = "DBAPIError", !.at = "write"]
                 /\ UNCHANGED <<writes, dest, entry, std, frame>>
    /\ UNCHANGED <<backend, schema, runArgs, datasets, qres, toLoad, idx,
                   opened, yielded, series, coerced, calls, fs, echoed, inits, runNo,
                   previous>>

\* The for loop of line 114 finds no more rows: the generator and
\* load_dataset return.
Exhaust ==
    /\ pc = "iter"
    /\ idx = Len(toLoad)
    /\ pc' = "done"
    /\ UNCHANGED <<backend, schema, runArgs, datasets, dest, qres, toLoad, err, idx,
                   entry, std, frame, opened, yielded, writes, chunk, series, coerced,
                   calls, fs, echoed, inits, conns, nconn, runNo, previous>>

\* coerce_bool_series(series)
Coerce ==
    /\ pc = "bool"
    /\ coerced' = CoerceBoolSeries(series)
    /\ pc' = "coerced"
    /\ UNCHANGED <<backend, schema, runArgs, datasets, dest, qres, toLoad, err, idx,
                   entry, std, frame, opened, yielded, writes, chunk, series, calls, fs,
                   echoed, inits, conns, nconn, runNo, previous>>

\* process.py is run again once a run has completed: the manifest and the
\* destination are what the run left, everything else starts afresh.
Rerun ==
    /\ pc = "done"
    /\ runNo < MaxRuns
    /\ runNo' = runNo + 1
    /\ previous' = writes
    /\ pc' = "start" /\ qres' = NoQuery /\ toLoad' = <<>> /\ err' = NoErr /\ idx' = 0
    /\ entry' = NoEntry /\ std' = NoFrame /\ frame' = NoFrame
    /\ opened' = <<>> /\ yielded' = <<>> /\ writes' = <<>> /\ chunk' = 0
    /\ calls' = <<>> /\ conns' = {} /\ nconn' = 0
    /\ UNCHANGED <<backend, schema, runArgs, datasets, dest, series, coerced, fs, echoed,
                   inits>>

\* elote init
InitCommand ==
    /\ pc = "cli"
    /\ inits < MaxInits
    /\ LET res == RunInit(fs)
       IN  /\ fs' = res.fs
           /\ echoed' = res.echoed
           /\ err' = IF res.exc = "none" THEN NoErr
                     ELSE [NoErr EXCEPT !.exc = res.exc, !.at = "init"]
    /\ inits' = inits + 1
    /\ UNCHANGED <<backend, schema, runArgs, datasets, dest, pc, qres, toLoad, idx,
                   entry, std, frame, opened, yielded, writes, chunk, series, coerced,
                   calls, conns, nconn, runNo, previous>>

(***************************************************************************)
(* Specifications.                                                         *)
(***************************************************************************)
RunFlags == [has_source_type : BOOLEAN, custom : BOOLEAN]

\* Manifest rows of a pipeline run: the k-th yearly period, 1 July to
\* 30 June.
Period(k) == [start_date |-> DateAt(2 * k - 1), end_date |-> DateAt(2 * k)]

Periods == {Period(k) : k \in 1..RunRows}

SeqsUpTo(S, n) == UNION {[1..m -> S] : m \in 0..n}

\* A manifest of a pipeline run lists each period at most once, in any order.
RunManifests ==
    {m \in SeqsUpTo(Periods, RunRows) : \A i, j \in 1..Len(m) : m[i] = m[j] => i = j}

\* Destinations of a pipeline run: no table, an empty table, or a table
\* holding one period, of the manifest's or the one before them.
RunDests(b) ==
    {MissingTable}
    \cup {[exists |-> TRUE, fmt |-> f, stamps |-> st] :
            f \in DestFormats(b),
            st \in {{}} \cup {{<<p.start_date, p.end_date>>} :
                                p \in Periods \cup {Period(0)}}}

Init ==
    /\ backend \in Backends
    /\ schema \in Schemas
    /\ runArgs \in RunFlags
    /\ datasets \in RunManifests
    /\ dest \in RunDests(backend)
    /\ Idle

Next == Filter \/ ProduceRun \/ Load \/ Exhaust

\* One run of load_dataset(transform_dataset(working_dir, table, schema)).
Spec == Init /\ [][Next]_vars

NextRerun == Filter \/ ProduceRun \/ Load \/ Exhaust \/ Rerun

\* Up to MaxRuns runs of load_dataset(transform_dataset(...)), one after
\* another, on the same manifest and destination.
SpecRerun == Init /\ [][NextRerun]_vars

\* Manifest rows of a filter call: any range of the bounded calendar with
\* start_date <= end_date.
FilterRows ==
    {r \in [start_date : DatesUpTo(NumDates), end_date : DatesUpTo(NumDates)] :
        ~DateLT(r.end_date, r.start_date)}

\* Destinations of a filter call: no table, an empty table, or a table
\* whose rows give any pair of bounds.
FilterDests(b) ==
    {MissingTable}
    \cup {[exists |-> TRUE, fmt |-> f, stamps |-> st] :
            f \in DestFormats(b),
            st \in {{}} \cup {{<<a, c>>} : a, c \in DatesUpTo(NumDates)}}

InitFilter ==
    /\ backend \in Backends
    /\ schema = "public"
    /\ runArgs = [has_source_type |-> FALSE, custom |-> FALSE]
    /\ datasets \in SeqsUpTo(FilterRows, MaxRows)
    /\ dest \in FilterDests(backend)
    /\ Idle

NextFilter == Filter

\* One call of _filter_datasets_on_loaded.
SpecFilter == InitFilter /\ [][NextFilter]_vars

\* The state after the filter returned the only row of a one-row manifest
\* (the destination table does not exist yet).
InitEntry ==
    /\ backend \in Backends
    /\ schema = "public"
    /\ runArgs \in RunFlags
    /\ datasets \in SeqsUpTo(Periods, 1) \ {<<>>}
    /\ dest = MissingTable
    /\ pc = "iter"
    /\ qres = [schema |-> EffectiveSchema(backend, schema),
               exc |-> TableMissingError(backend), cause |-> "table_missing",
               min |-> NullVal, max |-> NullVal]
    /\ toLoad = <<1>> /\ err = NoErr /\ idx = 0
    /\ entry = NoEntry /\ std = NoFrame /\ frame = NoFrame
    /\ opened = <<>> /\ yielded = <<>> /\ writes = <<>> /\ chunk = 0
    /\ previous = <<>>
    /\ runNo = 1
    /\ nconn = 0
    /\ conns = {}
    /\ inits = 0
    /\ echoed = <<>>
    /\ fs = NoProject
    /\ calls = <<>>
    /\ series = <<>> /\ coerced = [exc |-> "none", val |-> NoneCell, out |-> <<>>]

NextEntry == ProduceAny

\* One iteration of the generator's loop, over every input of EntryInputs.
SpecEntry == InitEntry /\ [][NextEntry]_vars

\* Elements of the series given to coerce_bool_series.
BoolInputs ==
    { StrCell(<<"y", "e", "s">>), StrCell(<<" ", "Y", "e", "s", " ">>),
      StrCell(<<"N", "O">>), StrCell(<<"T", "r", "u", "e">>),
      StrCell(<<"f", "a", "l", "s", "e", "\n">>), StrCell(<<"1">>), StrCell(<<"0">>),
      StrCell(<<"m", "a", "y", "b", "e">>), StrCell(<<" ", "2">>), StrCell(<<>>),
      IntCell(1), IntCell(0), IntCell(2), FloatCell(10), FloatCell(0), FloatCell(5),
      BoolCell(TRUE), NoneCell, NaNCell }

InitBool ==
    /\ backend = "sqlite" /\ schema = NoSchema
    /\ runArgs = [has_source_type |-> FALSE, custom |-> FALSE]
    /\ datasets = <<>> /\ dest = MissingTable
    /\ pc = "bool" /\ qres = NoQuery /\ toLoad = <<>> /\ err = NoErr /\ idx = 0
    /\ entry = NoEntry /\ std = NoFrame /\ frame = NoFrame
    /\ opened = <<>> /\ yielded = <<>> /\ writes = <<>> /\ chunk = 0
    /\ previous = <<>>
    /\ runNo = 1
    /\ nconn = 0
    /\ conns = {}
    /\ inits = 0
    /\ echoed = <<>>
    /\ fs = NoProject
    /\ calls = <<>>
    /\ series \in SeqsUpTo(BoolInputs, MaxSeries)
    /\ coerced = [exc |-> "none", val |-> NoneCell, out |-> <<>>]

NextBool == Coerce

\* One call of coerce_bool_series.
SpecBool == InitBool /\ [][NextBool]_vars

\* Directories the command can be run in: conf and output absent, a
\* directory or a regular file; the files under conf only when it is a
\* directory.
Projects ==
    {d \in [conf : {"absent", "dir", "file"}, output : {"absent", "dir", "file"},
            file : [Range(TemplatePaths) -> UNION {FileContents(p) : p \in Range(TemplatePaths)}]] :
        /\ \A p \in Range(TemplatePaths) : d.file[p] \in FileContents(p)
        /\ d.conf # "dir" =>
              d.file["conf/datasets.csv"] = "absent"
              /\ d.file["conf/field_reference.json"] = "absent"}

InitCli ==
    /\ backend = "sqlite" /\ schema = NoSchema
    /\ runArgs = [has_source_type |-> FALSE, custom |-> FALSE]
    /\ datasets = <<>> /\ dest = MissingTable
    /\ pc = "cli" /\ qres = NoQuery /\ toLoad = <<>> /\ err = NoErr /\ idx = 0
    /\ entry = NoEntry /\ std = NoFrame /\ frame = NoFrame
    /\ opened = <<>> /\ yielded = <<>> /\ writes = <<>> /\ chunk = 0
    /\ previous = <<>>
    /\ runNo = 1
    /\ nconn = 0
    /\ conns = {}
    /\ series = <<>> /\ coerced = [exc |-> "none", val |-> NoneCell, out |-> <<>>]
    /\ calls = <<>>
    /\ fs \in Projects /\ echoed = <<>> /\ inits = 0

NextCli == InitCommand

\* The init command run up to MaxInits times in one directory.
SpecInit == InitCli /\ [][NextCli]_vars

(***************************************************************************)
(* Properties.                                                             *)
(***************************************************************************)
\* The bounds the destination's rows give, as positions in the calendar.
CoverageMin == Ordinal(MinDate({st[1] : st \in dest.stamps}))

CoverageMax == Ordinal(MaxDate({st[2] : st \in dest.stamps}))

\* The coverage query returned both bounds as date objects or ISO-8601 text.
BoundsReturned ==
    /\ qres.cause = "none"
    /\ qres.min.k \in {"date", "str"}
    /\ qres.max.k \in {"date", "str"}

\* A manifest row lies outside the coverage: it starts after the last
\* covered day or ends before the first.
OutsideCoverage(row) ==
    \/ Ordinal(row.start_date) > CoverageMax
    \/ Ordinal(row.end_date) < CoverageMin

C2_OnlyMissingTableRecovered ==
    (pc # "start" /\ qres.exc # "none")
        => IF qres.cause = "table_missing"
           THEN pc = "iter" /\ toLoad = IndexOf(datasets)
           ELSE pc = "aborted" /\ err.exc = qres.exc /\ err.at = "filter"

\* The query outcome had the backend returned native date objects for the
\* same rows.
NativeOutcome ==
    ExecuteCoverageQuery(backend, [dest EXCEPT !.fmt = "date"], NoFault)

RowOf(label) == datasets[label]

\* to_load is fixed once the filter has returned.
Filtered == pc \notin {"start", "bool", "coerced"} /\ err.at # "filter"

\* C4: the tables yielded are, in order, those of the rows the filter kept,
\* one per row, none skipped, repeated or reordered: at every moment the
\* entries yielded so far are the first rows of to_load, the frame handed
\* over is the one of the row just taken, and when the generator returns
\* every kept row has been yielded once.  With no kept row nothing is
\* yielded.
C4_OneTablePerKeptRowInOrder ==
    Filtered
        => /\ Len(yielded) <= Len(toLoad)
           /\ yielded = SubSeq(toLoad, 1, Len(yielded))
           /\ \A j, k \in 1..Len(yielded) : j < k => yielded[j] < yielded[k]
           /\ pc = "yielded" =>
                 /\ Len(yielded) = idx /\ entry.label = toLoad[idx]
                 /\ Stamps(frame) \subseteq
                       {<<RowOf(toLoad[idx]).start_date, RowOf(toLoad[idx]).end_date>>}
           /\ pc = "done" => yielded = toLoad
           /\ toLoad = <<>> => yielded = <<>>

\* A run that completed after yielding the tables of two kept rows.
C4_Witness == pc = "done" /\ Len(yielded) = 2 /\ Len(writes) = 2

\* The labels of the entries whose table was appended.
WrittenLabels == [k \in 1..Len(writes) |-> writes[k].label]

\* C5: the run halts at the first error with no retry: once an exception
\* was raised no further step is taken, the tables of the entries before
\* the failing one are all in the destination, and nothing was appended for
\* the failing entry or a later one.
C5_HaltsAtFirstError ==
    /\ err.exc # "none" =>
          /\ pc = "aborted"
          /\ ~ENABLED Next
          /\ err.at = "filter" => writes = <<>> /\ opened = <<>>
          /\ err.at # "filter" =>
                /\ idx >= 1
                /\ WrittenLabels = SubSeq(toLoad, 1, idx - 1)
                /\ \A k \in 1..(idx - 1) :
                      <<RowOf(toLoad[k]).start_date, RowOf(toLoad[k]).end_date>>
                          \in dest.stamps
                /\ idx >= 2 => dest.exists
    /\ pc = "aborted" => err.exc # "none"

\* The second kept entry failed in the transformer after the first one's
\* table was appended, with a third manifest row or not.
C5_Witness ==
    /\ pc = "aborted" /\ err.at \in {"field_reference", "read", "out_types",
                                      "custom_transform", "unsupported_file_type"}
    /\ idx = 2 /\ Len(writes) = 1 /\ Len(toLoad) = 2

\* C6: the write path of a table depends on the table and the backend only:
\* geometry on PostgreSQL goes to to_postgis with the engine; geometry on a
\* backend without spatial support is flattened to WKB hex and goes to
\* to_sql, never to to_postgis; a plain table goes to to_sql.
C6_RouteByTableAndBackend ==
    \A k \in 1..Len(writes) :
        LET w == writes[k]
        IN  /\ (w.geo /\ backend = "postgresql") =>
                  /\ w.route.path = "to_postgis" /\ w.route.handle = "engine"
                  /\ ~w.route.flattened /\ ~w.hex
            /\ (w.geo /\ backend # "postgresql") =>
                  /\ w.route.path = "to_sql" /\ w.route.handle = "connection"
                  /\ w.route.flattened /\ w.hex
            /\ ~w.geo =>
                  /\ w.route.path = "to_sql" /\ w.route.handle = "connection"
                  /\ ~w.route.flattened

\* A mixed sequence on SQLite: a plain table, then a geometry-bearing one.
C6_Witness ==
    /\ backend = "sqlite" /\ Len(writes) = 2
    /\ ~writes[1].geo /\ writes[2].geo

\* C7: on PostgreSQL every append carries the caller's schema; on a backend
\* without schemas every append and the coverage query carry none, whatever
\* the caller passed.
C7_SchemaOnlyWhereSupported ==
    /\ backend = "postgresql" => \A k \in 1..Len(writes) : writes[k].route.schema = schema
    /\ backend # "postgresql" =>
          /\ \A k \in 1..Len(writes) : writes[k].route.schema = NoSchema
          /\ qres.cause # "not issued" => qres.schema = NoSchema

\* SQLite, the caller passed "public", and a geometry-bearing and a plain
\* table were appended.
C7_Witness ==
    /\ backend = "sqlite" /\ schema = "public" /\ qres.cause # "not issued"
    /\ Len(writes) = 2 /\ writes[1].geo /\ ~writes[2].geo

\* The elements of BoolInputs that stand for true, for false and for a
\* missing value; every other element is unrecognised.
TrueTokens ==
    { StrCell(<<"y", "e", "s">>), StrCell(<<" ", "Y", "e", "s", " ">>),
      StrCell(<<"T", "r", "u", "e">>), StrCell(<<"1">>),
      IntCell(1), FloatCell(10), BoolCell(TRUE) }

FalseTokens ==
    { StrCell(<<"N", "O">>), StrCell(<<"f", "a", "l", "s", "e", "\n">>), StrCell(<<"0">>),
      IntCell(0), FloatCell(0) }

MissingTokens == {NoneCell, NaNCell}

Recognised(c) == c \in TrueTokens \cup FalseTokens \cup MissingTokens

\* C8: coerce_bool_series maps a series whose elements are all missing or
\* recognised tokens, element by element, to true, false or missing (a
\* missing element never becomes true or false), keeping the length;
\* otherwise it raises an error naming the first unrecognised element as
\* given and returns nothing.  The input series is left as it was.
C8_CoerceBoolSeries ==
    [][(pc = "bool" /\ pc' = "coerced")
        => /\ series' = series
           /\ IF \A i \in 1..Len(series) : Recognised(series[i])
              THEN /\ coerced'.exc = "none"
                   /\ Len(coerced'.out) = Len(series)
                   /\ \A i \in 1..Len(series) :
                         /\ series[i] \in TrueTokens => coerced'.out[i] = BoolCell(TRUE)
                         /\ series[i] \in FalseTokens => coerced'.out[i] = BoolCell(FALSE)
                         /\ series[i] \in MissingTokens => coerced'.out[i] = NACell
              ELSE /\ coerced'.exc = "ValueError"
                   /\ coerced'.out = <<>>
                   /\ \E i \in 1..Len(series) :
                         /\ ~Recognised(series[i])
                         /\ \A j \in 1..(i - 1) : Recognised(series[j])
                         /\ coerced'.val = series[i]]_vars

\* A padded "Yes" followed by two different unrecognised values: the error
\* names the first of the two.
C8_Witness ==
    /\ pc = "coerced" /\ Len(series) = 3
    /\ series[1] = StrCell(<<" ", "Y", "e", "s", " ">>)
    /\ series[2] = StrCell(<<" ", "2">>)
    /\ series[3] = IntCell(2)
    /\ coerced.exc = "ValueError"

\* A series of recognised and missing values only, coerced.
C8_WitnessAllRecognised ==
    /\ pc = "coerced" /\ Len(series) = 3 /\ coerced.exc = "none"
    /\ series[1] = FloatCell(10) /\ series[2] = NaNCell
    /\ series[3] = StrCell(<<"f", "a", "l", "s", "e", "\n">>)

\* The iteration got as far as the projection of lines 145-149.
Projected ==
    \/ pc = "yielded"
    \/ pc = "aborted" /\ err.at \in {"out_types", "custom_transform"}

\* out_cols followed by whichever of the two date columns it lacks.
ExpectedCols(out_cols) ==
    out_cols
    \o (IF "start_date" \in Range(out_cols) THEN <<>> ELSE <<"start_date">>)
    \o (IF "end_date" \in Range(out_cols) THEN <<>> ELSE <<"end_date">>)

\* C9: the table the standard processing produces has exactly the columns
\* out_cols followed by whichever of start_date, end_date out_cols lacks,
\* and every row's start_date and end_date are those of the manifest entry,
\* also when the source had columns of those names.
C9_DateColumnsStamped ==
    Projected
        => /\ std.cols = ExpectedCols(entry.inp.fr.ref.out_cols)
           /\ {"start_date", "end_date"} \subseteq Range(std.cols)
           /\ std.n = entry.inp.read.frame.n
           /\ \A r \in 1..std.n :
                 /\ Column(std, "start_date")[r] = DateCell(RowOf(entry.label).start_date)
                 /\ Column(std, "end_date")[r] = DateCell(RowOf(entry.label).end_date)

\* A source with start_date and end_date columns of its own, under a field
\* reference that lists end_date first and omits start_date.
C9_Witness ==
    /\ pc = "yielded"
    /\ entry.inp.read.frame = SrcDated
    /\ entry.inp.fr.ref = RefEndFirst
    /\ std.cols = <<"end_date", "district_code", "start_date">>

\* The extensions the transformer reads.
ReadableSuffixes ==
    {<<".", "csv">>, <<".", "geojson">>, <<".", "shp">>, <<".", "gpkg">>}

\* The entry taken is read from a file (not from the database).
FileSourced ==
    /\ pc \in {"yielded", "aborted"} /\ entry.label # 0
    /\ ~(runArgs.has_source_type /\ entry.inp.source_type = "db")

UnsupportedRaised ==
    /\ pc = "aborted"
    /\ err.exc = "ValueError" /\ err.at = "unsupported_file_type"
    /\ err.suffix = Suffix(entry.inp.source_file)
    /\ frame = NoFrame /\ yielded = <<>>

\* C10 as stated: every file-sourced entry with an extension outside
\* {.csv, .geojson, .shp, .gpkg} raises the unsupported-file-type error
\* naming the extension and yields no table; with an extension inside the
\* set that error is never raised.
C10_UnsupportedAlwaysRaised ==
    FileSourced
        => IF Suffix(entry.inp.source_file) \notin ReadableSuffixes
           THEN UnsupportedRaised
           ELSE err.at # "unsupported_file_type"

\* C10, amended: a file-sourced entry whose field reference was loaded and
\* whose extension is outside {.csv, .geojson, .shp, .gpkg} raises the
\* unsupported-file-type error naming the extension and yields no table; an
\* entry whose field reference cannot be loaded raises that error instead
\* and yields no table either; with an extension inside the set the
\* unsupported-file-type error is never raised.
C10_UnsupportedRaisedOnceReferenceLoaded ==
    FileSourced
        => IF Suffix(entry.inp.source_file) \in ReadableSuffixes
           THEN err.at # "unsupported_file_type"
           ELSE IF entry.inp.fr.exc = "none"
           THEN UnsupportedRaised
           ELSE /\ pc = "aborted" /\ err.exc = entry.inp.fr.exc
                /\ err.at = "field_reference" /\ frame = NoFrame /\ yielded = <<>>

\* An .xlsx entry whose field reference loaded, on a manifest with a
\* source_type column whose value is blank for the entry.
C10_Witness ==
    /\ FileSourced /\ runArgs.has_source_type
    /\ entry.inp.source_file = <<"data/file", "xlsx">>
    /\ entry.inp.fr.exc = "none"
    /\ err.suffix = <<".", "xlsx">>

\* The entry taken got as far as acquiring its source.
ReachedReader ==
    /\ pc \in {"yielded", "aborted"} /\ entry.label # 0
    /\ entry.inp.fr.exc = "none"

\* C11: an entry is read from the database exactly when the manifest has a
\* source_type column and the entry's value is "db"; source_file is then
\* taken as schema.table (the part before the first dot is the schema, an
\* empty part counting as none, and the rest the table; with no dot the
\* schema is none and the whole text the table) and the extension is not
\* looked at.  With the column absent or the value blank the entry is
\* dispatched on its extension.
C11_DatabaseReadExactlyForDb ==
    ReachedReader
        => LET sf == entry.inp.source_file
               acq == entry.acq
           IN IF runArgs.has_source_type /\ entry.inp.source_type = "db"
              THEN /\ acq.reader = "read_sql_table"
                   /\ ~acq.suffix_checked
                   /\ err.at # "unsupported_file_type"
                   /\ IF Len(sf) >= 2
                      THEN /\ acq.src_schema = (IF sf[1] = "" THEN NoSchema ELSE sf[1])
                           /\ acq.src_table = SubSeq(sf, 2, Len(sf))
                      ELSE /\ acq.src_schema = NoSchema
                           /\ acq.src_table = sf
              ELSE /\ acq.reader # "read_sql_table"
                   /\ acq.suffix_checked
                   /\ acq.reader = "gpd.read_file" <=> Suffix(sf) \in GeoSuffixes
                   /\ acq.reader = "pd.read_csv" <=> Suffix(sf) = <<".", "csv">>
                   /\ acq.reader = "none" <=> err.at = "unsupported_file_type"
                   /\ (~runArgs.has_source_type \/ entry.inp.source_type = "blank")
                         => (acq.reader = "none" <=> Suffix(sf) \notin ReadableSuffixes)

\* A database entry whose source_file has two dots: the table name keeps
\* the second.
C11_Witness ==
    /\ pc = "yielded" /\ entry.inp.source_type = "db"
    /\ entry.inp.source_file = <<"public", "raw", "v2">>
    /\ entry.acq.src_schema = "public"
    /\ entry.acq.src_table = <<"raw", "v2">>

\* Text that pd.to_numeric cannot parse, among the values of the sources.
UnparseableTexts == {StrCell(<<>>), StrCell(<<"n", "/", "a">>)}

\* The out_types of the entry's field reference whose target is t.
ColsTyped(t) ==
    LET ot == entry.inp.fr.ref.out_types
    IN  {ot[k][1] : k \in {j \in 1..Len(ot) : ot[j][2] = t}}

\* The entry's source was read and projected: out_types is applied to std.
TypesApplied ==
    /\ ReachedReader
    /\ err.at \notin {"unsupported_file_type", "read", "project"}

\* A column flagged "bool" holds a value the boolean coercer does not know.
HasUnrecognisedBool ==
    \E c \in ColsTyped("bool") : \E r \in 1..std.n : ~Recognised(Column(std, c)[r])

\* C12: when out_types is applied, a blank or unparseable value in a column
\* with target int or float becomes a missing marker (pd.NA in the
\* nullable-integer column of an int target, NaN for float) and does not
\* stop the entry's table from being yielded, whereas an unrecognised value
\* in a column flagged "bool" aborts the entry with a ValueError naming the
\* value and no table is yielded for it.
C12_NumericLenientBooleanStrict ==
    TypesApplied
        => /\ (err.at = "out_types" /\ err.exc = "ValueError")
                 <=> (HasUnrecognisedBool /\ err.at = "out_types")
           /\ (HasUnrecognisedBool /\ ColsTyped("int") \cup ColsTyped("bool") \subseteq Range(std.cols)
                 /\ \A c \in ColsTyped("int") : \A r \in 1..std.n :
                       Column(std, c)[r] # StrCell(<<"4", ".", "5">>))
                 => /\ pc = "aborted" /\ err.at = "out_types" /\ err.exc = "ValueError"
                    /\ ~Recognised(err.val)
                    /\ frame = NoFrame /\ yielded = <<>>
           /\ (~HasUnrecognisedBool
                 /\ \A c \in ColsTyped("int") \cup ColsTyped("float") : \A r \in 1..std.n :
                       IsNA(Column(std, c)[r]) \/ Column(std, c)[r] \in UnparseableTexts
                          \/ Column(std, c)[r] \in {StrCell(<<"4", "2">>), StrCell(<<" ", "7">>)})
                 => err.at # "out_types"
           /\ (pc = "yielded" /\ entry.inp.custom = "same")
                 => /\ frame.n = std.n
                    /\ \A r \in 1..std.n :
                          /\ \A c \in ColsTyped("int") :
                                (IsNA(Column(std, c)[r]) \/ Column(std, c)[r] \in UnparseableTexts)
                                   => Column(frame, c)[r] = NACell
                          /\ \A c \in ColsTyped("float") :
                                (IsNA(Column(std, c)[r]) \/ Column(std, c)[r] \in UnparseableTexts)
                                   => Column(frame, c)[r] = NaNCell

\* A table whose int column held "n/a" is yielded with pd.NA in its place
\* and 7 beside it.
C12_Witness ==
    /\ pc = "yielded"
    /\ entry.inp.read.frame = SrcUnparseable
    /\ entry.inp.fr.ref = RefNoDates
    /\ Column(frame, "value") = <<NACell, IntCell(7)>>

\* An unrecognised flag aborts an entry whose float column is blank.
C12_WitnessBool ==
    /\ pc = "aborted" /\ err.at = "out_types"
    /\ entry.inp.read.frame = SrcBadFlag
    /\ entry.inp.fr.ref = RefFloat
    /\ err.val = StrCell(<<"m", "a", "y", "b", "e">>)

\* The standard table of the entry taken: std after type coercion.
Typed == ApplyOutTypes(std, entry.inp.fr.ref.out_types).frame

\* C13: a custom_transform that was supplied is called exactly once for
\* every surviving entry whose standard processing succeeded, in order,
\* after renames, date stamping, projection and type coercion, with the
\* entry's typed table and its field reference as loaded, and what it
\* returns is the table yielded; when none was supplied nothing is called
\* and the typed standard table is yielded as it is.
C13_CustomTransformOncePerEntry ==
    IF runArgs.custom
    THEN /\ calls = yielded \o (IF pc = "aborted" /\ err.at = "custom_transform"
                                THEN <<entry.label>> ELSE <<>>)
         /\ pc = "yielded"
               => /\ entry.call.made
                  /\ entry.call.frame = Typed
                  /\ entry.call.ref = entry.inp.fr.ref
                  /\ Range(std.cols) = Range(entry.call.frame.cols)
                  /\ Stamps(entry.call.frame) =
                        {<<RowOf(entry.label).start_date, RowOf(entry.label).end_date>>}
                  /\ frame = entry.call.ret
                  /\ entry.inp.custom = "same" => frame = Typed
                  /\ entry.inp.custom = "drop_row"
                        => frame.n = Typed.n - 1 /\ frame.cols = Typed.cols
    ELSE /\ calls = <<>>
         /\ pc = "yielded" => frame = Typed /\ ~entry.call.made

\* The second of two entries was handed to a custom_transform that dropped
\* a row; the first went through one that returned its table as it was.
C13_Witness ==
    /\ runArgs.custom /\ pc = "yielded"
    /\ calls = <<1, 2>>
    /\ entry.inp.custom = "drop_row"
    /\ frame.n = 1 /\ Typed.n = 2

\* C14: the init command never overwrites a file: each of
\* conf/datasets.csv, conf/field_reference.json and process.py that exists
\* keeps its content and, when the command completes, is reported as
\* skipped; each that is absent is then written from its template and
\* reported as created; and a command run after another changes no file.
C14_InitNeverOverwrites ==
    [][(inits' = inits + 1)
        => /\ \A i \in 1..3 :
                 LET p == <<"conf/datasets.csv", "conf/field_reference.json",
                            "process.py">>[i]
                 IN  IF fs.file[p] # "absent"
                     THEN /\ fs'.file[p] = fs.file[p]
                          /\ err'.exc = "none" => echoed'[i] = <<"Skipped", p>>
                     ELSE err'.exc = "none"
                             => /\ fs'.file[p] \in {"DATASETS_CSV_TEMPLATE",
                                                    "FIELD_REFERENCE_TEMPLATE",
                                                    "PROCESS_PY_TEMPLATE"}
                                /\ fs'.file[p] = Template(p)
                                /\ echoed'[i] = <<"Created", p>>
           /\ inits >= 1 => fs' = fs]_vars

\* The command was run twice in a directory where process.py had been
\* edited and conf/datasets.csv was missing: the second run skipped all
\* three files.
C14_Witness ==
    /\ inits = 2 /\ err.exc = "none"
    /\ fs.file["process.py"] = "edited by the user"
    /\ fs.file["conf/datasets.csv"] = "DATASETS_CSV_TEMPLATE"
    /\ fs.file["conf/field_reference.json"] = ""
    /\ \A i \in 1..3 : echoed[i][1] = "Skipped"

\* C15: tables are appended in the order they were yielded, one append per
\* table, with chunk numbers 1, 2, ... announced in that order; when the
\* transformer announces or acquires the source of the next entry every
\* table yielded before has been appended, so at most one table is ever
\* held un-written.
C15_OneTableInFlight ==
    [][/\ Len(writes') <= Len(yielded') /\ Len(yielded') <= Len(writes') + 1
       /\ \A i \in 1..Len(writes') :
             writes'[i].label = yielded'[i] /\ writes'[i].chunk = i
       /\ chunk' \in {Len(writes'), Len(writes') + 1}
       /\ chunk' > chunk => chunk' = chunk + 1 /\ pc = "yielded"
       /\ Len(writes') > Len(writes)
             => /\ Len(writes') = Len(writes) + 1
                /\ writes'[Len(writes')].label = entry.label
                /\ frame # NoFrame /\ frame' = NoFrame
       /\ (Len(yielded') = Len(writes') + 1) => frame' # NoFrame
       /\ opened' # opened
             => /\ Len(writes) = Len(yielded)
                /\ Len(yielded) = Len(opened)
                /\ chunk = Len(writes)
                /\ frame = NoFrame]_vars

\* Two tables were yielded and appended, as chunks 1 and 2.
C15_Witness ==
    /\ pc = "done" /\ Len(writes) = 2 /\ chunk = 2
    /\ yielded = <<1, 2>> /\ opened = <<1, 2>>
    /\ writes[1].label = 1 /\ writes[2].label = 2

Reevaluated ==
    FilterDatasetsOnLoaded(datasets, ExecuteCoverageQuery(backend, dest, NoFault))

\* C17: the filter is evaluated once per run, before any source is
\* announced or acquired, and its result is fixed: once it has returned,
\* no step of the run issues the coverage query again or changes to_load
\* or the manifest, and the entries announced are the rows of to_load in
\* order, whatever the loader has appended in the meantime.
C17_FilterEvaluatedOnce ==
    [][/\ pc = "start" => (opened = <<>> /\ yielded = <<>> /\ writes = <<>> /\ nconn = 0)
       /\ pc # "start"
             => /\ pc' # "start"
                /\ qres' = qres /\ toLoad' = toLoad /\ datasets' = datasets
       /\ qres' # qres => (pc = "start" /\ qres.cause = "not issued")
       /\ opened' # opened
             => /\ qres.cause # "not issued"
                /\ opened' = SubSeq(toLoad, 1, Len(opened) + 1)]_vars

\* The first of two surviving entries has been appended and the second now
\* lies inside the destination's coverage: evaluated again, the filter
\* would drop it.
C17_Witness ==
    /\ pc = "yielded" /\ toLoad = <<1, 2>> /\ opened = <<1, 2>>
    /\ Len(writes) = 1
    /\ Reevaluated.exc = "none" /\ Reevaluated.rows = <<>>

\* The run before completed and appended, for every entry it wrote, a table
\* of at least one row with the entry's dates as stamped.
PreviousRunLoaded ==
    /\ runNo >= 2
    /\ \A i \in 1..Len(previous) :
          previous[i].stamps =
             {<<RowOf(previous[i].label).start_date, RowOf(previous[i].label).end_date>>}
    /\ \A i \in 1..Len(datasets) : ~DateLT(datasets[i].end_date, datasets[i].start_date)

\* C18: after a run that completed without error and wrote every surviving
\* entry with at least one row and its dates as stamped, a second run on
\* the same manifest, whose coverage query meets no fault, has no surviving
\* entries and appends nothing.
C18_RerunLoadsNothing ==
    (PreviousRunLoaded /\ pc # "start" /\ qres.cause \in {"none", "table_missing"})
        => /\ pc \in {"iter", "done"}
           /\ err = NoErr
           /\ toLoad = <<>>
           /\ writes = <<>>

\* C19: when the destination table exists but holds no rows, so that the
\* coverage query returns null for both bounds, the filter returns the full
\* manifest without raising, as it does for a missing table.
C19_EmptyTableReturnsFullManifest ==
    (pc # "start" /\ dest.exists /\ dest.stamps = {}
        /\ qres.cause = "none" /\ qres.min.k = "null" /\ qres.max.k = "null")
        => /\ pc = "iter"
           /\ err = NoErr
           /\ toLoad = IndexOf(datasets)

====
